---- MODULE Spec2Model ----
(***************************************************************************)
(* ShaderResourceCacheVk: the flat, allocator-backed store of descriptor   *)
(* sets and resource slots, and the TransitionResources pass over it.      *)
(* Modelled from Graphics/GraphicsEngineVulkan/src/ShaderResourceCacheVk.cpp*)
(*                                                                         *)
(* Pointers are 1-based indices, 0 is nullptr: m_pMemory is a block id,    *)
(* DescriptorSet.pResources is the flat index of the set's first slot.     *)
(***************************************************************************)
EXTENDS Integers, Sequences, FiniteSets, TLC

VARIABLES
    assertionsOn,      \* build configuration: VERIFY / UNEXPECTED are active
    pc,                \* "alive", "aborted", "crashed", "destroyed"
    m_pAllocator,      \* "nullptr" or the allocator given to InitializeSets
    m_pMemory,         \* 0 (nullptr) or the id of the block the store owns
    m_NumSets,
    m_TotalResources,
    sets,              \* the DescriptorSet headers at the start of the block
    mem,               \* the Resource slots that follow the headers
    blocks,            \* every block ever allocated: its allocator, its Free count
    refCnt,            \* reference counter of every bindable object
    accessFlags,       \* BufferVkImpl access flags, owned by the buffer
    layout,            \* TextureVkImpl image layout, owned by the texture
    last,              \* what the most recent call did (arguments, outputs)
    otherStore,        \* the members of a second ShaderResourceCacheVk object
    sizing             \* the Uint32 arithmetic of InitializeSets on full-width sizes

vars == <<assertionsOn, pc, m_pAllocator, m_pMemory, m_NumSets, m_TotalResources,
          sets, mem, blocks, refCnt, accessFlags, layout, last, otherStore, sizing>>

storeVars == <<m_pAllocator, m_pMemory, m_NumSets, m_TotalResources, sets, mem, blocks>>

----------------------------------------------------------------------------
\* Bounds of the model

MaxSets == 2
MaxSetSize == 2
MaxTotal == 2
MaxBlocks == 1
MaxSharedSlots == 2
MaxWideSets == 3

----------------------------------------------------------------------------
\* The objects of the environment

Allocators == {"A1", "A2"}
Buffers == {"B1", "B2"}
BufferViews == {"BV1"}
Textures == {"T1"}
TextureViews == {"TV1"}
Samplers == {"S1"}
\* the objects the application binds: B2 is reached through its view BV1 only
BoundBuffers == {"B1"}
Objects == BoundBuffers \cup BufferViews \cup TextureViews \cup Samplers

\* BufferViewVkImpl::GetBuffer
GetBuffer(view) == "B2"

\* TextureViewVkImpl::GetTexture
GetTexture(view) == "T1"

\* VkAccessFlags as the set of its bits
VK_ACCESS_UNIFORM_READ_BIT == {"UNIFORM_READ"}
VK_ACCESS_SHADER_READ_BIT == {"SHADER_READ"}
VK_ACCESS_SHADER_WRITE_BIT == {"SHADER_WRITE"}
\* SPIRVShaderResourceAttribs::ResourceType, as the switch names its values
BufferKinds == {"UniformBuffer", "StorageBuffer"}
TexelBufferKinds == {"UniformTexelBuffer", "StorageTexelBuffer"}
ImageKinds == {"SeparateImage", "SampledImage", "StorageImage"}
NoStateKinds == {"AtomicCounter", "SeparateSampler"}
KnownKinds == BufferKinds \cup TexelBufferKinds \cup ImageKinds \cup NoStateKinds
\* the enumeration's end marker: a value of the type that no case names
ResourceTypes == KnownKinds \cup {"NumResourceTypes"}

----------------------------------------------------------------------------
\* Helpers

RECURSIVE Sum(_)
Sum(s) == IF s = <<>> THEN 0 ELSE s[1] + Sum(Tail(s))

Prefix(s, n) == [i \in 1..n |-> s[i]]

RECURSIVE SeqsUpTo(_, _)
SeqsUpTo(S, n) ==
    IF n = 0 THEN { <<>> }
    ELSE LET shorter == SeqsUpTo(S, n - 1)
         IN shorter \cup { Append(s, x) : s \in { t \in shorter : Len(t) = n - 1 }, x \in S }

\* the SetSizes arrays the model passes to InitializeSets
SetSizesInputs == { s \in SeqsUpTo(0..MaxSetSize, MaxSets) : Sum(s) <= MaxTotal }

\* Uint32: a 32-bit unsigned value as its two 16-bit halves
Half == 2^16
ToUint32(n) == [hi |-> (n \div Half) % Half, lo |-> n % Half]
ToNat(u) == u.hi * Half + u.lo

\* Uint32 += Uint32: the carry out of the upper half is lost
AddUint32(a, b) ==
    LET lo == a.lo + b.lo
        hi == a.hi + b.hi + (lo \div Half)
    IN [hi |-> hi % Half, lo |-> lo % Half]

\* Resource* += Uint32: a 64-bit pointer, as its offset in slots from the
\* first slot (the upper part is not cut at 16 bits)
AddOffset(p, b) ==
    LET lo == p.lo + b.lo
    IN [hi |-> p.hi + b.hi + (lo \div Half), lo |-> lo % Half]

\* no full-width computation was made
NoSizing == [called |-> FALSE, SetSizes |-> <<>>, m_TotalResources |-> ToUint32(0),
             pCurrResPtr |-> ToUint32(0), atEnd |-> TRUE, status |-> "ok"]

\* a ShaderResourceCacheVk object that nothing was called on
NoStore == [m_pAllocator |-> "nullptr", m_pMemory |-> 0, m_NumSets |-> 0,
            m_TotalResources |-> 0, sets |-> <<>>, mem |-> <<>>]

\* a slot of the block that no constructor has run on
RawSlot == [ctor |-> 0, Type |-> "uninitialized", pObject |-> "uninitialized"]

NoCall == [op |-> "none", status |-> "ok", alloc |-> "nullptr", sizes |-> <<>>,
           set |-> 0, offset |-> 0, count |-> 0, kind |-> "none", object |-> "nullptr",
           requests |-> <<>>, diags |-> <<>>, visited |-> 0, events |-> <<>>, ub |-> FALSE,
           prev |-> "none"]

----------------------------------------------------------------------------
\* ShaderResourceCacheVk::InitializeSets

\* line 52: VERIFY(m_pAllocator == nullptr && m_pMemory == nullptr, ...)
NotYetInitialized == m_pAllocator = "nullptr" /\ m_pMemory = 0

\* lines 55-57: m_TotalResources = 0; for (t < NumSets) m_TotalResources += SetSizes[t]
\* on Uint32 values (t counts from 1 here)
RECURSIVE TotalResources32(_, _, _, _)
TotalResources32(NumSets, SetSizes, t, total) ==
    IF t > NumSets THEN total
    ELSE TotalResources32(NumSets, SetSizes, t + 1, AddUint32(total, SetSizes[t]))

\* lines 55-57 for the set sizes of the model, which are small numbers
TotalResources(NumSets, SetSizes) ==
    ToNat(TotalResources32(NumSets, [t \in 1..NumSets |-> ToUint32(SetSizes[t])], 1, ToUint32(0)))

\* line 58-59: MemorySize > 0; DescriptorSet and Resource have positive sizes
MemorySizePositive(NumSets, total) == NumSets > 0 \/ total > 0

\* the slice cursor is never advanced
CurrResPtrNotAdvanced(SetSizes, t) == 1

\* lines 63-68: pCurrResPtr when set t is constructed
CurrResPtr(SetSizes, t) == 1 + Sum(Prefix(SetSizes, t - 1))

\* the set header records one slot less than the set was given
NewDescriptorSetOneShort(SetSizes, t) ==
    [NumResources |-> IF SetSizes[t] > 0 THEN SetSizes[t] - 1 ELSE 0,
     pResources   |-> IF SetSizes[t] > 1 THEN CurrResPtr(SetSizes, t) ELSE 0]

\* line 66: new(&GetDescriptorSet(t)) DescriptorSet(SetSizes[t], SetSizes[t] > 0 ? pCurrResPtr : nullptr)
NewDescriptorSet(SetSizes, t) ==
    [NumResources |-> SetSizes[t],
     pResources   |-> IF SetSizes[t] > 0 THEN CurrResPtr(SetSizes, t) ELSE 0]

InitializeSets(MemAllocator, NumSets, SetSizes) ==
    /\ pc = "alive"
    /\ Len(blocks) < MaxBlocks
    /\ IF ~NotYetInitialized /\ assertionsOn
       THEN \* the assertion fails: the call ends there
            /\ pc' = "aborted"
            /\ last' = [NoCall EXCEPT !.op = "InitializeSets", !.status = "AlreadyInitialized",
                                      !.alloc = MemAllocator, !.sizes = SetSizes]
            /\ UNCHANGED <<storeVars, refCnt>>
       ELSE LET total == TotalResources(NumSets, SetSizes) IN
            /\ m_pAllocator' = MemAllocator
            /\ m_NumSets' = NumSets
            /\ m_TotalResources' = total
            /\ IF MemorySizePositive(NumSets, total)
               THEN /\ blocks' = Append(blocks, [allocator |-> MemAllocator, freed |-> 0])
                    /\ m_pMemory' = Len(blocks) + 1
                    /\ sets' = [t \in 1..NumSets |-> NewDescriptorSet(SetSizes, t)]
                    /\ mem' = [i \in 1..total |-> RawSlot]
               ELSE UNCHANGED <<blocks, m_pMemory, sets, mem>>
            /\ pc' = "alive"
            /\ last' = [NoCall EXCEPT !.op = "InitializeSets", !.alloc = MemAllocator,
                                      !.sizes = SetSizes]
            /\ UNCHANGED refCnt
    /\ UNCHANGED <<assertionsOn, otherStore, sizing, accessFlags, layout>>

----------------------------------------------------------------------------
\* ShaderResourceCacheVk::InitializeResources

\* GetDescriptorSet(Set).GetResource(Index): the flat index of the slot
\* (Set and Index count from 0, as in the code)
ResourceIndex(Set, Index) == sets[Set + 1].pResources + Index

\* the (Set, Offset, ArraySize) ranges a caller may pass: inside the set, and
\* on slots not constructed before (the caller contract of InitializeResources)
ValidRange(Set, Offset, ArraySize) ==
    /\ Set < m_NumSets
    /\ Set + 1 <= Len(sets)
    /\ ArraySize >= 1
    /\ Offset + ArraySize <= sets[Set + 1].NumResources
    /\ \A res \in 0..(ArraySize - 1) : mem[ResourceIndex(Set, Offset + res)].ctor = 0

\* the slot is constructed without the type it was asked for
NewResourceDefaultType(Type) == [ctor |-> 1, Type |-> "UniformBuffer", pObject |-> "nullptr"]

\* line 77: new(&DescrSet.GetResource(Offset + res)) Resource{Type}
NewResource(Type) == [ctor |-> 1, Type |-> Type, pObject |-> "nullptr"]

InitializeResources(Set, Offset, ArraySize, Type) ==
    /\ pc = "alive"
    /\ m_pMemory # 0
    /\ ValidRange(Set, Offset, ArraySize)
    /\ mem' = [i \in 1..Len(mem) |->
                 IF \E res \in 0..(ArraySize - 1) : i = ResourceIndex(Set, Offset + res)
                 THEN NewResource(Type)
                 ELSE mem[i]]
    /\ last' = [NoCall EXCEPT !.op = "InitializeResources", !.set = Set, !.offset = Offset,
                              !.count = ArraySize, !.kind = Type]
    /\ UNCHANGED <<assertionsOn, otherStore, sizing, pc, m_pAllocator, m_pMemory, m_NumSets, m_TotalResources,
                   sets, blocks, refCnt, accessFlags, layout>>

----------------------------------------------------------------------------
\* The binding code: assigns Resource::pObject of a constructed slot

\* the objects the binding code stores in a slot of the given type
Bindable(Type) ==
    CASE Type \in BufferKinds -> BoundBuffers
      [] Type \in TexelBufferKinds -> BufferViews
      [] Type \in ImageKinds -> TextureViews
      [] Type = "AtomicCounter" -> BoundBuffers
      [] Type = "SeparateSampler" -> Samplers
      [] OTHER -> {}

\* RefCntAutoPtr assignment: AddRef on the new object, Release on the old one
AssignRef(cnt, old, new) ==
    [o \in Objects |-> cnt[o] + (IF o = new THEN 1 ELSE 0) - (IF o = old THEN 1 ELSE 0)]

BindResource(Set, Index, object) ==
    /\ pc = "alive"
    /\ m_pMemory # 0
    /\ Set < m_NumSets
    /\ Set + 1 <= Len(sets)
    /\ Index < sets[Set + 1].NumResources
    /\ LET i == ResourceIndex(Set, Index) IN
       /\ mem[i].ctor = 1
       /\ object \in Bindable(mem[i].Type) \cup {"nullptr"}
       /\ object # mem[i].pObject
       /\ mem' = [mem EXCEPT ![i].pObject = object]
       /\ refCnt' = AssignRef(refCnt, mem[i].pObject, object)
    /\ last' = [NoCall EXCEPT !.op = "BindResource"]
    /\ UNCHANGED <<assertionsOn, otherStore, sizing, pc, m_pAllocator, m_pMemory, m_NumSets, m_TotalResources,
                   sets, blocks, accessFlags, layout>>

----------------------------------------------------------------------------
\* ShaderResourceCacheVk::TransitionResources<VerifyOnly>

\* the uniform texel buffer case takes the flags of the storage case
RequiredAccessFlagsTexelAsStorage(Type) ==
    IF Type = "UniformBuffer" THEN VK_ACCESS_UNIFORM_READ_BIT
    ELSE VK_ACCESS_SHADER_READ_BIT \cup VK_ACCESS_SHADER_WRITE_BIT

\* lines 107-110 and 126-129: RequiredAccessFlags
RequiredAccessFlags(Type) ==
    CASE Type = "UniformBuffer" -> VK_ACCESS_UNIFORM_READ_BIT
      [] Type = "StorageBuffer" -> VK_ACCESS_SHADER_READ_BIT \cup VK_ACCESS_SHADER_WRITE_BIT
      [] Type = "UniformTexelBuffer" -> VK_ACCESS_SHADER_READ_BIT
      [] Type = "StorageTexelBuffer" -> VK_ACCESS_SHADER_READ_BIT \cup VK_ACCESS_SHADER_WRITE_BIT

\* lines 146-148: RequiredLayout
RequiredLayout(Type) ==
    IF Type = "StorageImage" THEN "VK_IMAGE_LAYOUT_GENERAL"
    ELSE "VK_IMAGE_LAYOUT_SHADER_READ_ONLY_OPTIMAL"

\* lines 106 and 124-125: the buffer whose access flags the slot is checked against
BufferOfSlot(Type, pObject) ==
    IF Type \in BufferKinds THEN pObject ELSE GetBuffer(pObject)

\* line 145: the texture whose layout the slot is checked against
TextureOfSlot(Type, pObject) == GetTexture(pObject)

\* the running state of one pass: the resource states, what went to the
\* context and to the log so far, how many slots were visited
PassStart == [flags |-> accessFlags, layout |-> layout, requests |-> <<>>, diags |-> <<>>,
              visited |-> 0, status |-> "ok", ub |-> FALSE]

\* LOG_ERROR_MESSAGE(...) of lines 114, 133, 152
LogError(st, res, name) ==
    [st EXCEPT !.diags = Append(@, [slot |-> res, object |-> name])]

\* DeviceContextVkImpl::BufferMemoryBarrier: records the barrier, the buffer
\* takes the new access flags
BufferMemoryBarrier(st, res, buffer, flags) ==
    [st EXCEPT !.requests = Append(@, [slot |-> res, call |-> "BufferMemoryBarrier",
                                       object |-> buffer, flags |-> flags,
                                       newLayout |-> "none"]),
               !.flags = [@ EXCEPT ![buffer] = flags]]

\* DeviceContextVkImpl::TransitionImageLayout: records the transition, the
\* texture takes the new layout
TransitionImageLayout(st, res, texture, newLayout) ==
    [st EXCEPT !.requests = Append(@, [slot |-> res, call |-> "TransitionImageLayout",
                                       object |-> texture, flags |-> {},
                                       newLayout |-> newLayout]),
               !.layout = [@ EXCEPT ![texture] = newLayout]]

\* the barrier is requested without comparing the flags first
CheckBufferUnconditional(VerifyOnly, st, res, buffer, required) ==
    IF VerifyOnly
    THEN IF st.flags[buffer] # required THEN LogError(st, res, buffer) ELSE st
    ELSE BufferMemoryBarrier(st, res, buffer, required)

\* the mismatch is acted on without looking at VerifyOnly
CheckBufferIgnoresVerifyOnly(VerifyOnly, st, res, buffer, required) ==
    IF st.flags[buffer] # required
    THEN BufferMemoryBarrier(st, res, buffer, required)
    ELSE st

\* the apply branch requests nothing for a buffer
CheckBufferNoBarrier(VerifyOnly, st, res, buffer, required) ==
    IF st.flags[buffer] # required /\ VerifyOnly
    THEN LogError(st, res, buffer)
    ELSE st

\* only the first mismatch of an apply pass gets its barrier
CheckBufferOncePerPass(VerifyOnly, st, res, buffer, required) ==
    IF st.flags[buffer] # required
    THEN IF VerifyOnly THEN LogError(st, res, buffer)
         ELSE IF st.requests = <<>> THEN BufferMemoryBarrier(st, res, buffer, required)
         ELSE st
    ELSE st

\* lines 111-117 and 130-136
CheckBuffer(VerifyOnly, st, res, buffer, required) ==
    IF st.flags[buffer] # required
    THEN IF VerifyOnly THEN LogError(st, res, buffer)
         ELSE BufferMemoryBarrier(st, res, buffer, required)
    ELSE st

\* the verify branch reports nothing
CheckTextureSilentVerify(VerifyOnly, st, res, texture, required) ==
    IF st.layout[texture] # required /\ ~VerifyOnly
    THEN TransitionImageLayout(st, res, texture, required)
    ELSE st

\* the apply branch requests nothing
CheckTextureNoTransition(VerifyOnly, st, res, texture, required) ==
    IF st.layout[texture] # required /\ VerifyOnly
    THEN LogError(st, res, texture)
    ELSE st

\* the apply branch logs the mismatch before it requests the transition
CheckTextureLogsInApply(VerifyOnly, st, res, texture, required) ==
    IF st.layout[texture] # required
    THEN IF VerifyOnly THEN LogError(st, res, texture)
         ELSE TransitionImageLayout(LogError(st, res, texture), res, texture, required)
    ELSE st

\* lines 149-155
CheckTexture(VerifyOnly, st, res, texture, required) ==
    IF st.layout[texture] # required
    THEN IF VerifyOnly THEN LogError(st, res, texture)
         ELSE TransitionImageLayout(st, res, texture, required)
    ELSE st

\* line 171: UNEXPECTED("Unexpected resource type") is an assertion: it ends
\* the pass where assertions are built in and is an empty statement otherwise
Unexpected(st) ==
    IF assertionsOn THEN [st EXCEPT !.status = "UnexpectedResourceKind"] ELSE st

\* a pointer that is null or was never written is dereferenced (lines 111,
\* 125, 130, 145, 149): the read faults, or it yields arbitrary flags, which
\* match (nothing is done) or do not (the diagnostic or the request names
\* whatever the pointer holds; no live object is changed)
WildDereference(VerifyOnly, st, res, pointer) ==
    LET u == [st EXCEPT !.ub = TRUE] IN
    { [u EXCEPT !.status = "crashed"],
      u,
      IF VerifyOnly THEN LogError(u, res, pointer)
      ELSE [u EXCEPT !.requests = Append(@, [slot |-> res, call |-> "wild", object |-> pointer,
                                             flags |-> {}, newLayout |-> "none"])] }

\* lines 101-172: the switch on Res.Type, for a slot with these contents
VisitResource(VerifyOnly, st, res, Type, pObject) ==
    CASE Type \in BufferKinds \cup TexelBufferKinds ->
            IF pObject = "nullptr" THEN WildDereference(VerifyOnly, st, res, pObject)
            ELSE { CheckBuffer(VerifyOnly, st, res, BufferOfSlot(Type, pObject),
                               RequiredAccessFlags(Type)) }
      [] Type \in ImageKinds ->
            IF pObject = "nullptr" THEN WildDereference(VerifyOnly, st, res, pObject)
            ELSE { CheckTexture(VerifyOnly, st, res, TextureOfSlot(Type, pObject),
                                RequiredLayout(Type)) }
      [] Type \in NoStateKinds -> { st }
      [] OTHER -> { Unexpected(st) }

\* line 100: auto &Res = pResources[res]; then the switch. A slot that was
\* never constructed holds arbitrary bytes: the switch may take any case, and
\* a case that uses pObject dereferences a wild pointer
VisitSlot(VerifyOnly, st, res) ==
    LET Res == mem[res]
        at == [st EXCEPT !.visited = res]
    IN IF Res.ctor = 0
       THEN LET u == [at EXCEPT !.ub = TRUE] IN
            { u, Unexpected(u) } \cup WildDereference(VerifyOnly, u, res, Res.pObject)
       ELSE VisitResource(VerifyOnly, at, res, Res.Type, Res.pObject)

\* the loop condition is res < m_TotalResources - 1: the last slot is left out
RECURSIVE RunPassSkipsLastSlot(_, _, _)
RunPassSkipsLastSlot(VerifyOnly, st, res) ==
    IF res > m_TotalResources - 1 \/ st.status # "ok"
    THEN { st }
    ELSE UNION { RunPassSkipsLastSlot(VerifyOnly, s2, res + 1) :
                 s2 \in VisitSlot(VerifyOnly, st, res) }

\* the loop ends at the first diagnostic
RECURSIVE RunPassStopsAtMismatch(_, _, _)
RunPassStopsAtMismatch(VerifyOnly, st, res) ==
    IF res > m_TotalResources \/ st.status # "ok" \/ st.diags # <<>>
    THEN { st }
    ELSE UNION { RunPassStopsAtMismatch(VerifyOnly, s2, res + 1) :
                 s2 \in VisitSlot(VerifyOnly, st, res) }

\* lines 98-173: for (res = 0; res < m_TotalResources; ++res)
RECURSIVE RunPass(_, _, _)
RunPass(VerifyOnly, st, res) ==
    IF res > m_TotalResources \/ st.status # "ok"
    THEN { st }
    ELSE UNION { RunPass(VerifyOnly, s2, res + 1) : s2 \in VisitSlot(VerifyOnly, st, res) }

PcAfter(status) ==
    CASE status = "ok" -> "alive"
      [] status = "crashed" -> "crashed"
      [] OTHER -> "aborted"

\* the call that came right before this pass, when it was a pass too
PrevPass ==
    IF last.op \in {"Apply", "Verify"} THEN last.op
    ELSE IF last.op = "SwitchStore" THEN last.prev
    ELSE "other"

\* the buffer case takes the pointer out of the slot (Detach() for RawPtr()):
\* the visited buffer slots lose their binding
TransitionResourcesDetaches(VerifyOnly) ==
    /\ pc = "alive"
    /\ \E r \in RunPass(VerifyOnly, PassStart, 1) :
         /\ accessFlags' = r.flags
         /\ layout' = r.layout
         /\ pc' = PcAfter(r.status)
         /\ mem' = [i \in 1..Len(mem) |->
                      IF i <= r.visited /\ mem[i].ctor = 1 /\ mem[i].Type \in BufferKinds
                      THEN [mem[i] EXCEPT !.pObject = "nullptr"]
                      ELSE mem[i]]
         /\ last' = [NoCall EXCEPT !.op = IF VerifyOnly THEN "Verify" ELSE "Apply",
                                   !.status = r.status, !.requests = r.requests,
                                   !.diags = r.diags, !.visited = r.visited, !.ub = r.ub,
                                   !.prev = PrevPass]
    /\ UNCHANGED <<assertionsOn, otherStore, sizing, m_pAllocator, m_pMemory, m_NumSets,
                   m_TotalResources, sets, blocks, refCnt>>

TransitionResources(VerifyOnly) ==
    /\ pc = "alive"
    /\ \E r \in RunPass(VerifyOnly, PassStart, 1) :
         /\ accessFlags' = r.flags
         /\ layout' = r.layout
         /\ pc' = PcAfter(r.status)
         /\ last' = [NoCall EXCEPT !.op = IF VerifyOnly THEN "Verify" ELSE "Apply",
                                   !.status = r.status, !.requests = r.requests,
                                   !.diags = r.diags, !.visited = r.visited, !.ub = r.ub,
                                   !.prev = PrevPass]
    /\ UNCHANGED <<assertionsOn, otherStore, sizing, storeVars, refCnt>>

----------------------------------------------------------------------------
\* ShaderResourceCacheVk::~ShaderResourceCacheVk

DtorStart == [cnt |-> refCnt, events |-> <<>>, status |-> "ok", ub |-> FALSE]

\* the slot's reference is never given back
ReleaseRefSkipped(st, object) == st

\* RefCntAutoPtr::~RefCntAutoPtr: Release() when the pointer is not null
ReleaseRef(st, object) ==
    IF object = "nullptr" THEN st
    ELSE IF st.cnt[object] = 0 THEN [st EXCEPT !.status = "crashed"]
    ELSE [st EXCEPT !.cnt = [@ EXCEPT ![object] = @ - 1]]

\* line 86: pResources[res].~Resource(); on a slot never constructed the
\* pointer is arbitrary: Release() on it faults, or it happens to be null
DestructResource(st, res) ==
    LET at == [st EXCEPT !.events = Append(@, [what |-> "~Resource", index |-> res])]
    IN IF mem[res].ctor = 0
       THEN LET u == [at EXCEPT !.ub = TRUE] IN
            { [u EXCEPT !.status = "crashed"], u }
       ELSE { ReleaseRef(at, mem[res].pObject) }

\* lines 85-86
RECURSIVE DestructResources(_, _)
DestructResources(st, res) ==
    IF res > m_TotalResources \/ st.status # "ok"
    THEN { st }
    ELSE UNION { DestructResources(s2, res + 1) : s2 \in DestructResource(st, res) }

\* the loop counts down from the last set
DestructSetsBackward(events, t) ==
    events \o [k \in 1..(m_NumSets - t) |-> [what |-> "~DescriptorSet", index |-> m_NumSets - k]]

\* lines 87-88: GetDescriptorSet(t).~DescriptorSet(), t = 0 .. m_NumSets-1
RECURSIVE DestructSets(_, _)
DestructSets(events, t) ==
    IF t >= m_NumSets THEN events
    ELSE DestructSets(Append(events, [what |-> "~DescriptorSet", index |-> t]), t + 1)

\* the block is never given back
FreeNotCalled(blks, allocator, block) == blks

\* line 90: m_pAllocator->Free(m_pMemory)
Free(blks, allocator, block) ==
    [blks EXCEPT ![block].freed = IF blks[block].allocator = allocator THEN @ + 1 ELSE @]

Destructor ==
    /\ pc = "alive"
    /\ IF m_pMemory # 0
       THEN \E r \in DestructResources(DtorStart, 1) :
              /\ refCnt' = r.cnt
              /\ IF r.status = "ok"
                 THEN /\ blocks' = Free(blocks, m_pAllocator, m_pMemory)
                      /\ pc' = "destroyed"
                      /\ last' = [NoCall EXCEPT !.op = "Destructor", !.ub = r.ub,
                                    !.alloc = m_pAllocator,
                                    !.events = Append(DestructSets(r.events, 0),
                                                      [what |-> "Free", index |-> m_pMemory])]
                 ELSE /\ blocks' = blocks
                      /\ pc' = "crashed"
                      /\ last' = [NoCall EXCEPT !.op = "Destructor", !.ub = r.ub,
                                    !.status = r.status, !.events = r.events]
       ELSE /\ pc' = "destroyed"
            /\ last' = [NoCall EXCEPT !.op = "Destructor"]
            /\ UNCHANGED <<refCnt, blocks>>
    /\ UNCHANGED <<assertionsOn, otherStore, sizing, m_pAllocator, m_pMemory, m_NumSets, m_TotalResources,
                   sets, mem, accessFlags, layout>>

----------------------------------------------------------------------------

Init ==
    /\ assertionsOn \in BOOLEAN
    /\ pc = "alive"
    /\ m_pAllocator = "nullptr"
    /\ m_pMemory = 0
    /\ m_NumSets = 0
    /\ m_TotalResources = 0
    /\ sets = <<>>
    /\ mem = <<>>
    /\ blocks = <<>>
    /\ refCnt = [o \in Objects |-> 1]
    /\ accessFlags = [b \in Buffers |-> {}]
    /\ layout = [t \in Textures |-> "VK_IMAGE_LAYOUT_UNDEFINED"]
    /\ last = NoCall
    /\ otherStore = NoStore
    /\ sizing = NoSizing

CallInitializeSets ==
    \E a \in Allocators, s \in SetSizesInputs : InitializeSets(a, Len(s), s)

CallInitializeResources ==
    \E Set \in 0..(MaxSets - 1), Offset \in 0..(MaxSetSize - 1), ArraySize \in 1..MaxSetSize,
       Type \in ResourceTypes : InitializeResources(Set, Offset, ArraySize, Type)

CallBindResource ==
    \E Set \in 0..(MaxSets - 1), Index \in 0..(MaxSetSize - 1),
       object \in Objects \cup {"nullptr"} : BindResource(Set, Index, object)

Apply == TransitionResources(FALSE)

Verify == TransitionResources(TRUE)

Next ==
    \/ CallInitializeSets
    \/ CallInitializeResources
    \/ CallBindResource
    \/ Apply
    \/ Verify
    \/ Destructor

Spec == Init /\ [][Next]_vars

----------------------------------------------------------------------------
\* Two stores that bind the same buffer and texture, used from one context:
\* a call on one store runs to its end before a call on the other starts

\* the members of the store the calls go to
ThisStore == [m_pAllocator |-> m_pAllocator, m_pMemory |-> m_pMemory, m_NumSets |-> m_NumSets,
              m_TotalResources |-> m_TotalResources, sets |-> sets, mem |-> mem]

\* the context turns to its other store: the next calls go to that object
SwitchStore ==
    /\ pc = "alive"
    /\ otherStore' = ThisStore
    /\ m_pAllocator' = otherStore.m_pAllocator
    /\ m_pMemory' = otherStore.m_pMemory
    /\ m_NumSets' = otherStore.m_NumSets
    /\ m_TotalResources' = otherStore.m_TotalResources
    /\ sets' = otherStore.sets
    /\ mem' = otherStore.mem
    /\ last' = [NoCall EXCEPT !.op = "SwitchStore",
                              !.prev = CASE last.op = "Apply" -> "ApplyOfOtherStore"
                                         [] last.op = "SwitchStore" /\ last.prev = "ApplyOfOtherStore"
                                              -> "Apply"
                                         [] last.op = "SwitchStore" /\ last.prev = "Apply"
                                              -> "ApplyOfOtherStore"
                                         [] OTHER -> "other"]
    /\ UNCHANGED <<assertionsOn, sizing, pc, blocks, refCnt, accessFlags, layout>>

\* the kinds of the slots of the two stores, and a slot of each kind as
\* InitializeResources and the binding code leave it
SharedKinds == {"UniformBuffer", "StorageBuffer", "SampledImage", "StorageImage"}
BoundSlot(Type) ==
    [NewResource(Type) EXCEPT !.pObject = IF Type \in ImageKinds THEN "TV1" ELSE "B1"]
SharedSlots == { s \in SeqsUpTo({ BoundSlot(Type) : Type \in SharedKinds }, MaxSharedSlots) :
                 Len(s) >= 1 }

\* a store after InitializeSets(allocator, 1, [Len(slots)]), InitializeResources
\* for each slot and the binding of each slot
StoreOf(allocator, block, slots) ==
    [m_pAllocator |-> allocator, m_pMemory |-> block, m_NumSets |-> 1,
     m_TotalResources |-> Len(slots),
     sets |-> << [NumResources |-> Len(slots), pResources |-> 1] >>,
     mem |-> slots]

HeldIn(slots, object) == Cardinality({ i \in 1..Len(slots) : slots[i].pObject = object })

InitShared ==
    /\ assertionsOn \in BOOLEAN
    /\ pc = "alive"
    /\ \E one \in SharedSlots, two \in SharedSlots :
          /\ m_pAllocator = "A1"
          /\ m_pMemory = 1
          /\ m_NumSets = 1
          /\ m_TotalResources = Len(one)
          /\ sets = StoreOf("A1", 1, one).sets
          /\ mem = one
          /\ otherStore = StoreOf("A2", 2, two)
          /\ refCnt = [o \in Objects |-> 1 + HeldIn(one, o) + HeldIn(two, o)]
    /\ blocks = << [allocator |-> "A1", freed |-> 0], [allocator |-> "A2", freed |-> 0] >>
    /\ accessFlags = [b \in Buffers |-> {}]
    /\ layout = [t \in Textures |-> "VK_IMAGE_LAYOUT_UNDEFINED"]
    /\ last = NoCall
    /\ sizing = NoSizing

NextShared ==
    \/ SwitchStore
    \/ Apply
    \/ Verify

SpecShared == InitShared /\ [][NextShared]_vars

----------------------------------------------------------------------------
\* The arithmetic of InitializeSets (lines 55-69) on set sizes of the full
\* Uint32 range

\* set sizes around the ends of the range and around the carry of the halves
Uint32Samples ==
    { ToUint32(0), ToUint32(1), ToUint32(Half - 1), ToUint32(Half),
      [hi |-> Half \div 2, lo |-> 0], [hi |-> Half - 1, lo |-> Half - 1] }

WideSetSizes == SeqsUpTo(Uint32Samples, MaxWideSets)

\* lines 63-68: pCurrResPtr after the loop, pCurrResPtr += SetSizes[t] for each set
RECURSIVE CurrResPtrAfter(_, _, _, _)
CurrResPtrAfter(NumSets, SetSizes, t, ptr) ==
    IF t > NumSets THEN ptr
    ELSE CurrResPtrAfter(NumSets, SetSizes, t + 1, AddOffset(ptr, SetSizes[t]))

\* line 69: (char*)pCurrResPtr == (char*)m_pMemory + MemorySize, where
\* MemorySize has m_TotalResources slots after the headers. A cursor that was
\* moved past the end of the block is undefined: the comparison may give
\* either answer
CursorAtEnd(ptr, total) ==
    IF ptr = total THEN { TRUE } ELSE BOOLEAN

\* lines 58-59: MemorySize > 0, for a Uint32 total
MemorySizePositive32(NumSets, total) == NumSets > 0 \/ total # ToUint32(0)

InitializeSetsArithmetic ==
    /\ ~sizing.called
    /\ LET NumSets == Len(sizing.SetSizes)
           total == TotalResources32(NumSets, sizing.SetSizes, 1, ToUint32(0))
           ptr == CurrResPtrAfter(NumSets, sizing.SetSizes, 1, ToUint32(0))
       IN \E atEnd \in (IF MemorySizePositive32(NumSets, total)
                         THEN CursorAtEnd(ptr, total) ELSE { TRUE }) :
            sizing' = [sizing EXCEPT !.called = TRUE,
                                     !.m_TotalResources = total,
                                     !.pCurrResPtr = ptr,
                                     !.atEnd = atEnd,
                                     !.status = IF ~atEnd /\ assertionsOn
                                                THEN "CursorNotAtEnd" ELSE "ok"]
    /\ UNCHANGED <<assertionsOn, pc, storeVars, refCnt, accessFlags, layout, last, otherStore>>

InitSizes ==
    /\ assertionsOn \in BOOLEAN
    /\ pc = "alive"
    /\ m_pAllocator = "nullptr"
    /\ m_pMemory = 0
    /\ m_NumSets = 0
    /\ m_TotalResources = 0
    /\ sets = <<>>
    /\ mem = <<>>
    /\ blocks = <<>>
    /\ refCnt = [o \in Objects |-> 1]
    /\ accessFlags = [b \in Buffers |-> {}]
    /\ layout = [t \in Textures |-> "VK_IMAGE_LAYOUT_UNDEFINED"]
    /\ last = NoCall
    /\ otherStore = NoStore
    /\ \E s \in WideSetSizes : sizing = [NoSizing EXCEPT !.SetSizes = s]

NextSizes == InitializeSetsArithmetic

SpecSizes == InitSizes /\ [][NextSizes]_vars

----------------------------------------------------------------------------
\* Properties

\* the flat slot indices of set t (t counts from 1 here)
SlotRange(t) ==
    IF sets[t].NumResources = 0 THEN {}
    ELSE sets[t].pResources .. (sets[t].pResources + sets[t].NumResources - 1)

\* the state is the one a first, successful InitializeSets call has just left
AfterInitializeSets == last.op = "InitializeSets" /\ last.status = "ok" /\ Len(blocks) = 1
                       /\ Len(last.sizes) > 0

\* C1: after InitializeSets(S), set t reports exactly S[t] slots, the slot
\* ranges of distinct sets are pairwise disjoint and together cover the flat
\* slot indices of the block exactly once, and every set that has slots starts
\* where the slots of the sets before it end (a set without slots has an
\* empty range).
C1_SetsPartitionSlots ==
    AfterInitializeSets =>
        /\ m_NumSets = Len(last.sizes)
        /\ \A t \in 1..m_NumSets : sets[t].NumResources = last.sizes[t]
        /\ \A t, u \in 1..m_NumSets : t # u => SlotRange(t) \cap SlotRange(u) = {}
        /\ UNION { SlotRange(t) : t \in 1..m_NumSets } = 1..Sum(last.sizes)
        /\ \A t \in 1..m_NumSets :
              sets[t].NumResources > 0 =>
                  sets[t].pResources = 1 + Sum([u \in 1..(t - 1) |-> sets[u].NumResources])

\* two sets that both have slots were laid out
C1_Witness ==
    /\ AfterInitializeSets
    /\ m_NumSets = 2
    /\ sets[1].NumResources > 0 /\ sets[2].NumResources > 0

\* C2: a second InitializeSets call on an initialized store fails with
\* AlreadyInitialized and leaves the store as the first call set it up.
C2_SecondInitializeSetsRejected ==
    [][ (last'.op = "InitializeSets" /\ ~NotYetInitialized)
            => (last'.status = "AlreadyInitialized" /\ UNCHANGED storeVars) ]_vars

\* the slots a pass visits
Slots == 1..m_TotalResources

\* the kinds whose case compares a resource state
StateKinds == BufferKinds \cup TexelBufferKinds \cup ImageKinds

\* the slot was constructed with a kind that needs a resource, and has one
Stateful(i) ==
    mem[i].ctor = 1 /\ mem[i].Type \in StateKinds /\ mem[i].pObject # "nullptr"

\* every slot was constructed once with a known kind, and every slot whose
\* kind needs a resource is bound (what the callers of the store owe it)
WellFormedStore ==
    /\ m_TotalResources <= Len(mem)
    /\ \A i \in Slots :
          /\ mem[i].ctor = 1
          /\ mem[i].Type \in KnownKinds
          /\ mem[i].Type \in StateKinds => mem[i].pObject # "nullptr"

\* the buffer or texture whose state slot i is checked against
Underlying(i) ==
    IF mem[i].Type \in ImageKinds THEN TextureOfSlot(mem[i].Type, mem[i].pObject)
    ELSE BufferOfSlot(mem[i].Type, mem[i].pObject)

\* the state slot i requires of its resource
Required(i) ==
    IF mem[i].Type \in ImageKinds
    THEN [flags |-> {}, layout |-> RequiredLayout(mem[i].Type)]
    ELSE [flags |-> RequiredAccessFlags(mem[i].Type), layout |-> "none"]

\* the resource of slot i is in the state the slot requires
InRequiredState(i) ==
    IF mem[i].Type \in ImageKinds
    THEN layout[Underlying(i)] = Required(i).layout
    ELSE accessFlags[Underlying(i)] = Required(i).flags

\* no buffer or texture is bound in two slots that require different states
NoConflict ==
    \A i, j \in Slots :
        (Stateful(i) /\ Stateful(j) /\ Underlying(i) = Underlying(j))
            => Required(i) = Required(j)

\* one buffer or texture is bound in two slots
SharedResource ==
    \E i, j \in Slots : i < j /\ Stateful(i) /\ Stateful(j) /\ Underlying(i) = Underlying(j)

SlotsOf(records) == { records[k].slot : k \in 1..Len(records) }

\* this pass ran to its end and read only constructed, bound slots
CleanPass(op) == last.op = op /\ last.status = "ok" /\ ~last.ub

\* C3: after InitializeResources(set, offset, count, kind) every slot of the
\* range has the given kind and an empty bound object and every other slot is
\* as it was; no binding and no transition pass changes the kind of a slot.
C3_KindFixedAtInitialization ==
    [][ /\ last'.op = "InitializeResources" =>
            /\ Len(mem') = Len(mem)
            /\ \A i \in 1..Len(mem) :
                  IF /\ i >= sets[last'.set + 1].pResources + last'.offset
                     /\ i < sets[last'.set + 1].pResources + last'.offset + last'.count
                  THEN /\ mem'[i].ctor = 1
                       /\ mem'[i].Type = last'.kind
                       /\ mem'[i].pObject = "nullptr"
                  ELSE mem'[i] = mem[i]
        /\ last'.op \in {"BindResource", "Apply", "Verify"} =>
            /\ Len(mem') = Len(mem)
            /\ \A i \in 1..Len(mem) : mem'[i].ctor = mem[i].ctor /\ mem'[i].Type = mem[i].Type
      ]_vars

\* a slot that was initialized, then bound, then went through an apply pass
\* that asked for a transition, still has the kind it was given
C3_Witness ==
    /\ last.op = "Apply" /\ last.requests # <<>>
    /\ \E i \in Slots : Stateful(i) /\ mem[i].Type = "StorageImage"

\* C4 as claimed: for any cache state, the second of two apply passes in
\* succession issues no BufferMemoryBarrier / TransitionImageLayout request.
C4_SecondApplyIssuesNothing ==
    (CleanPass("Apply") /\ last.prev = "Apply") => last.requests = <<>>

\* C4 as amended: the second of two apply passes in succession issues no
\* request when no buffer or texture is bound in slots that require different
\* states (it may be bound in several slots that require the same state).
C4_SecondApplyIssuesNothingWithoutConflict ==
    (CleanPass("Apply") /\ last.prev = "Apply" /\ NoConflict) => last.requests = <<>>

\* a second apply pass over a store where one resource sits in two slots and
\* was moved out of its initial state
C4_Witness ==
    /\ CleanPass("Apply") /\ last.prev = "Apply" /\ NoConflict /\ SharedResource
    /\ last.requests = <<>>
    /\ \E i \in Slots : Stateful(i) /\ InRequiredState(i)

\* C5 as claimed: from one cache state, the verify pass reports a mismatch for
\* slot X iff the apply pass emits a request while it visits slot X.
C5_VerifyReportsWhatApplyRequests ==
    CleanPass("Verify") =>
        \A r \in RunPass(FALSE, PassStart, 1) :
            SlotsOf(last.diags) = SlotsOf(r.requests)

\* slot i is the first slot of the pass that uses its resource
FirstUse(i) ==
    \A j \in Slots : (j < i /\ Stateful(i) /\ Stateful(j)) => Underlying(j) # Underlying(i)

\* C5 as amended: from one cache state, the verify pass reports a mismatch for
\* slot X iff the apply pass emits a request while it visits slot X, for every
\* slot X whose buffer or texture is not the resource of an earlier slot.
C5_VerifyReportsWhatApplyRequestsAtFirstUse ==
    CleanPass("Verify") =>
        \A r \in RunPass(FALSE, PassStart, 1) :
            \A X \in Slots :
                FirstUse(X) => (X \in SlotsOf(last.diags) <=> X \in SlotsOf(r.requests))

\* a verify pass that reported two slots with different resources
C5_Witness ==
    /\ CleanPass("Verify")
    /\ Len(last.diags) = 2
    /\ \A X \in Slots : FirstUse(X)

\* C6 as claimed: after an apply pass over a store whose buffer and image
\* slots are all bound every bound resource is in the state each of its slots
\* requires, and a verify pass right after it reports nothing.
C6_ApplyLeavesNothingToReport ==
    /\ (CleanPass("Apply") /\ WellFormedStore) => \A i \in Slots : Stateful(i) => InRequiredState(i)
    /\ (CleanPass("Verify") /\ WellFormedStore /\ last.prev = "Apply") => last.diags = <<>>

\* C6 as amended: the same, for a store in which no buffer or texture is
\* bound in slots that require different states.
C6_ApplyLeavesNothingToReportWithoutConflict ==
    /\ (CleanPass("Apply") /\ WellFormedStore /\ NoConflict)
           => \A i \in Slots : Stateful(i) => InRequiredState(i)
    /\ (CleanPass("Verify") /\ WellFormedStore /\ NoConflict /\ last.prev = "Apply")
           => last.diags = <<>>

\* a verify pass right after an apply pass, over a buffer and a texture that
\* the apply pass moved out of their initial states
C6_Witness ==
    /\ CleanPass("Verify") /\ WellFormedStore /\ NoConflict /\ last.prev = "Apply"
    /\ last.diags = <<>>
    /\ accessFlags["B1"] = VK_ACCESS_UNIFORM_READ_BIT
    /\ layout["T1"] = "VK_IMAGE_LAYOUT_SHADER_READ_ONLY_OPTIMAL"

\* C7: a verify pass changes no buffer's access flags and no texture's layout,
\* issues no request to the context, and leaves the store and the reference
\* counters alone.
C7_VerifyChangesNothing ==
    [][ last'.op = "Verify" =>
            /\ accessFlags' = accessFlags
            /\ layout' = layout
            /\ last'.requests = <<>>
            /\ UNCHANGED <<storeVars, refCnt>> ]_vars

\* a verify pass that found mismatches
C7_Witness ==
    CleanPass("Verify") /\ Len(last.diags) = 2 /\ accessFlags["B1"] = {}

\* the slots whose bound resource is not in the required state
Mismatched == { i \in Slots : Stateful(i) /\ ~InRequiredState(i) }

\* C8: a verify pass over a store whose slots are constructed and bound
\* reaches the last slot whatever it finds, and reports one diagnostic for
\* every slot whose resource is not in the required state, none for the others.
C8_VerifyReportsEveryMismatch ==
    (last.op = "Verify" /\ WellFormedStore) =>
        /\ last.status = "ok"
        /\ last.visited = m_TotalResources
        /\ Len(last.diags) = Cardinality(Mismatched)
        /\ SlotsOf(last.diags) = Mismatched

\* a verify pass that went on after its first mismatch
C8_Witness ==
    /\ last.op = "Verify" /\ WellFormedStore
    /\ Cardinality(Mismatched) = 2 /\ last.visited = 2

\* the number of slots that hold a reference to the object
Holders(object) == Cardinality({ i \in 1..Len(mem) : mem[i].ctor = 1 /\ mem[i].pObject = object })

\* the store was set up by one InitializeSets call and owns its block
InitializedOnce ==
    /\ m_pMemory # 0 /\ Len(blocks) = 1
    /\ m_NumSets = Len(sets) /\ m_TotalResources = Len(mem)

\* C9: destroying an initialized store whose slots were all constructed
\* drops every object's reference counter by the number of slots that held
\* the object, which leaves the counter where it was before the store took
\* its first reference.
C9_DestructorReleasesOnce ==
    [][ (last'.op = "Destructor" /\ InitializedOnce /\ \A i \in 1..Len(mem) : mem[i].ctor = 1) =>
            /\ pc' = "destroyed"
            /\ \A o \in Objects : refCnt'[o] = refCnt[o] - Holders(o)
            /\ \A o \in Objects : refCnt'[o] = 1 ]_vars

\* a destroyed store that held one object in two slots
C9_Witness ==
    /\ pc = "destroyed" /\ ~last.ub /\ InitializedOnce
    /\ Len(mem) = 2 /\ mem[1].pObject = "B1" /\ mem[2].pObject = "B1"
    /\ refCnt["B1"] = 1

\* the table of required states, as the specification gives it
TableAccess(Type) ==
    CASE Type = "UniformBuffer" -> {"UNIFORM_READ"}
      [] Type = "StorageBuffer" -> {"SHADER_READ", "SHADER_WRITE"}
      [] Type = "StorageTexelBuffer" -> {"SHADER_READ", "SHADER_WRITE"}
      [] Type = "UniformTexelBuffer" -> {"SHADER_READ"}
TableLayout(Type) ==
    CASE Type = "SeparateImage" -> "VK_IMAGE_LAYOUT_SHADER_READ_ONLY_OPTIMAL"
      [] Type = "SampledImage" -> "VK_IMAGE_LAYOUT_SHADER_READ_ONLY_OPTIMAL"
      [] Type = "StorageImage" -> "VK_IMAGE_LAYOUT_GENERAL"
\* the object of the table's check: the bound buffer, the buffer under the
\* bound view, the texture under the bound view
TableObject(i) ==
    CASE mem[i].Type \in {"UniformBuffer", "StorageBuffer"} -> mem[i].pObject
      [] mem[i].Type \in {"UniformTexelBuffer", "StorageTexelBuffer"} -> "B2"
      [] OTHER -> "T1"
TableMismatch(i) ==
    CASE mem[i].Type \in {"UniformBuffer", "StorageBuffer", "UniformTexelBuffer",
                          "StorageTexelBuffer"} ->
             accessFlags[TableObject(i)] # TableAccess(mem[i].Type)
      [] mem[i].Type \in {"SeparateImage", "SampledImage", "StorageImage"} ->
             layout[TableObject(i)] # TableLayout(mem[i].Type)
      [] OTHER -> FALSE

\* C10: a pass classifies every slot by the table: a verify pass reports slot
\* i, naming the table's object, exactly when that object is not in the
\* table's state for the slot's kind; every request of an apply pass names the
\* table's object and the table's state for the kind of its slot, and leaves
\* each object in the table's state for the last slot that uses it; atomic
\* counters and separate samplers get no diagnostic and no request.
C10_ClassificationMatchesTable ==
    /\ (last.op = "Verify" /\ WellFormedStore) =>
          /\ \A i \in Slots : i \in SlotsOf(last.diags) <=> TableMismatch(i)
          /\ \A k \in 1..Len(last.diags) : last.diags[k].object = TableObject(last.diags[k].slot)
    /\ (last.op = "Apply" /\ WellFormedStore) =>
          \A k \in 1..Len(last.requests) :
              LET q == last.requests[k] IN
              /\ mem[q.slot].Type \in StateKinds
              /\ q.object = TableObject(q.slot)
              /\ IF mem[q.slot].Type \in ImageKinds
                 THEN q.call = "TransitionImageLayout" /\ q.newLayout = TableLayout(mem[q.slot].Type)
                 ELSE q.call = "BufferMemoryBarrier" /\ q.flags = TableAccess(mem[q.slot].Type)
    /\ (last.op = "Apply" /\ WellFormedStore) =>
          \A i \in Slots :
              (/\ mem[i].Type \in StateKinds
               /\ \A j \in Slots : (j > i /\ mem[j].Type \in StateKinds)
                                       => TableObject(j) # TableObject(i))
                  => ~TableMismatch(i)

\* a verify pass that reported a uniform texel buffer slot, checked on the
\* buffer under its view, and a storage image slot
C10_Witness ==
    /\ last.op = "Verify" /\ WellFormedStore
    /\ \E i, j \in Slots :
          /\ mem[i].Type = "UniformTexelBuffer" /\ mem[j].Type = "StorageImage"
          /\ i \in SlotsOf(last.diags) /\ j \in SlotsOf(last.diags)

\* the call was a transition pass, in either mode
IsPass(call) == call.op \in {"Apply", "Verify"}

\* a constructed slot whose kind is none of the nine known kinds
UnknownKindSlots == { i \in Slots : mem[i].ctor = 1 /\ mem[i].Type \notin KnownKinds }

\* a constructed slot of a buffer, buffer view or image kind with no object
UnboundSlots == { i \in Slots : mem[i].ctor = 1 /\ mem[i].Type \in StateKinds
                                 /\ mem[i].pObject = "nullptr" }

\* C11: a pass over a store that has a slot of an unknown kind (its other
\* slots constructed and bound) ends in the fatal UnexpectedResourceKind
\* condition at the first such slot; it does not go on to the slots after it.
C11_UnknownKindIsFatal ==
    (IsPass(last) /\ ~last.ub /\ UnknownKindSlots # {}) =>
        /\ last.status = "UnexpectedResourceKind"
        /\ \E i \in UnknownKindSlots :
              /\ last.visited = i
              /\ \A j \in UnknownKindSlots : i <= j

\* C12: a pass that meets a constructed slot of a buffer, buffer view or image
\* kind whose bound object is empty ends in an UnboundResource failure at that
\* slot; the empty binding is never dereferenced.
C12_EmptyBindingIsReported ==
    (IsPass(last) /\ UnboundSlots # {} /\ UnknownKindSlots = {}
        /\ \A i \in Slots : mem[i].ctor = 1) =>
        /\ last.status = "UnboundResource"
        /\ ~last.ub

\* the pass of lines 98-173 with its slots taken in the given order instead
RECURSIVE RunPassInOrder(_, _, _, _)
RunPassInOrder(VerifyOnly, st, order, k) ==
    IF k > m_TotalResources \/ st.status # "ok"
    THEN { st }
    ELSE UNION { RunPassInOrder(VerifyOnly, s2, order, k + 1) :
                 s2 \in VisitSlot(VerifyOnly, st, order[k]) }

\* every order in which the slots of the store could be visited
SlotOrders == Permutations(Slots)

\* the apply pass that has just run leaves every buffer and texture in the
\* state that a pass in any other slot order would have left it in
SameInEveryOrder ==
    \A order \in SlotOrders :
        \A r \in RunPassInOrder(FALSE, PassStart, order, 1) :
            r.flags = accessFlags' /\ r.layout = layout'

\* C13 as claimed: for any cache state (slots constructed and bound), the
\* access flags and layouts an apply pass leaves are the same for every order
\* in which the slots could be visited.
C13_ApplyOrderIndependent ==
    [][ (last'.op = "Apply" /\ WellFormedStore) => SameInEveryOrder ]_vars

\* C13 as amended: the access flags and layouts an apply pass leaves are the
\* same for every order in which the slots could be visited when no buffer or
\* texture is bound in slots that require different states.
C13_ApplyOrderIndependentWithoutConflict ==
    [][ (last'.op = "Apply" /\ WellFormedStore /\ NoConflict) => SameInEveryOrder ]_vars

\* an apply pass that moved two different resources, one per slot
C13_Witness ==
    /\ CleanPass("Apply") /\ WellFormedStore /\ NoConflict
    /\ Len(last.requests) = 2
    /\ last.requests[1].object # last.requests[2].object

\* the requests of the pass that came from slots before slot i and name the
\* resource of slot i
EarlierRequests(i, reqs) ==
    { k \in 1..Len(reqs) : reqs[k].slot < i /\ reqs[k].object = Underlying(i) }

\* the state of the resource of slot i at the moment the pass visits slot i:
\* what the last earlier request of the pass gave it, or what it had before
StateAtVisit(i, reqs) ==
    LET earlier == EarlierRequests(i, reqs) IN
    IF earlier = {}
    THEN [flags |-> IF mem[i].Type \in ImageKinds THEN {} ELSE accessFlags[Underlying(i)],
          layout |-> IF mem[i].Type \in ImageKinds THEN layout[Underlying(i)] ELSE "none"]
    ELSE LET k == CHOOSE x \in earlier : \A y \in earlier : y <= x
         IN [flags |-> reqs[k].flags, layout |-> reqs[k].newLayout]

MismatchedAtVisit(i, reqs) == Stateful(i) /\ StateAtVisit(i, reqs) # Required(i)

RequestsOfSlot(i, reqs) == { k \in 1..Len(reqs) : reqs[k].slot = i }

\* C14: an apply pass (over constructed, bound slots) emits no diagnostic,
\* no request for a slot whose resource is in the required state when the
\* slot is visited, and exactly one request for each slot whose resource is
\* mismatched at that moment.
C14_ApplyRequestsOnlyMismatches ==
    [][ (last'.op = "Apply" /\ last'.status = "ok" /\ ~last'.ub) =>
            /\ last'.diags = <<>>
            /\ \A i \in Slots :
                  Cardinality(RequestsOfSlot(i, last'.requests))
                      = IF MismatchedAtVisit(i, last'.requests) THEN 1 ELSE 0 ]_vars

\* an apply pass over one buffer in two slots: the first slot found it
\* mismatched, the second found it as the first left it
C14_Witness ==
    /\ CleanPass("Apply") /\ WellFormedStore /\ SharedResource
    /\ m_TotalResources = 2
    /\ Len(last.requests) = 1 /\ last.requests[1].slot = 1

\* the buffers and textures that the slots of this store are checked against
UnderlyingHere == { Underlying(i) : i \in { j \in Slots : Stateful(j) } }

\* after the step, the resource of slot i is in the state the slot requires
InRequiredStateAfter(i) ==
    IF mem[i].Type \in ImageKinds
    THEN layout'[Underlying(i)] = Required(i).layout
    ELSE accessFlags'[Underlying(i)] = Required(i).flags

\* what an apply pass on this store leaves: its own resources as its slots
\* require them, every other resource as it was
LeavesRequiredStates ==
    /\ \A i \in Slots : Stateful(i) => InRequiredStateAfter(i)
    /\ \A b \in Buffers \ UnderlyingHere : accessFlags'[b] = accessFlags[b]
    /\ \A t \in Textures \ UnderlyingHere : layout'[t] = layout[t]

\* C15 as claimed: with the passes of two stores that share a buffer and a
\* texture run one after the other, at the end of each apply pass every
\* resource bound in that pass's store is in the state that store requires
\* (and no resource of the other store alone was touched); turning from one
\* store to the other changes no resource state.
C15_SerializedPassesLeaveRequiredStates ==
    [][ /\ (last'.op = "Apply" /\ WellFormedStore) => LeavesRequiredStates
        /\ last'.op = "SwitchStore" => UNCHANGED <<accessFlags, layout>> ]_vars

\* C15 as amended: the same, for a pass of a store in which no buffer or
\* texture is bound in slots that require different states.
C15_SerializedPassesLeaveRequiredStatesWithoutConflict ==
    [][ /\ (last'.op = "Apply" /\ WellFormedStore /\ NoConflict) => LeavesRequiredStates
        /\ last'.op = "SwitchStore" => UNCHANGED <<accessFlags, layout>> ]_vars

\* the slots of the other store that use the resource of slot i of this
\* store and require another state of it
ContendedBy(i) ==
    { j \in 1..otherStore.m_TotalResources :
        LET slot == otherStore.mem[j] IN
        /\ (slot.Type \in ImageKinds) = (mem[i].Type \in ImageKinds)
        /\ slot.pObject = mem[i].pObject
        /\ slot.Type # mem[i].Type
        /\ IF slot.Type \in ImageKinds
           THEN RequiredLayout(slot.Type) # RequiredLayout(mem[i].Type)
           ELSE RequiredAccessFlags(slot.Type) # RequiredAccessFlags(mem[i].Type) }

\* an apply pass of this store right after an apply pass of the other store,
\* which had left a shared buffer and the shared texture in the states its
\* own slots require: this pass moved both to the states of this store
C15_Witness ==
    /\ CleanPass("Apply") /\ last.prev = "ApplyOfOtherStore"
    /\ WellFormedStore /\ NoConflict
    /\ Len(last.requests) = 2
    /\ \A i \in Slots : Stateful(i) /\ InRequiredState(i) /\ ContendedBy(i) # {}

\* the teardown ran to its end on a store that owns a block
TornDown == last.op = "Destructor" /\ last.status = "ok" /\ m_pMemory # 0

\* the destructions of set headers, in the order the teardown made them
SetEvents == SelectSeq(last.events, LAMBDA e : e.what = "~DescriptorSet")

\* C16 as claimed: teardown destroys the descriptor-set records in reverse
\* order of their construction: set n-1 first, set 0 last.
C16_SetsDestroyedInReverseOrder ==
    TornDown =>
        /\ Len(SetEvents) = m_NumSets
        /\ \A k \in 1..Len(SetEvents) : SetEvents[k].index = m_NumSets - k

\* C16 as amended: teardown destroys the descriptor-set records in the order
\* of their construction: set 0 first, set n-1 last.
C16_SetsDestroyedInConstructionOrder ==
    TornDown =>
        /\ Len(SetEvents) = m_NumSets
        /\ \A k \in 1..Len(SetEvents) : SetEvents[k].index = k - 1

\* a store of two sets was torn down
C16_Witness ==
    TornDown /\ m_NumSets = 2 /\ Len(SetEvents) = 2

\* the events of a complete teardown of this store: every slot in increasing
\* flat order, then one destruction per set header, then Free of the block
OrderlyTeardown(events) ==
    /\ Len(events) = m_TotalResources + m_NumSets + 1
    /\ \A k \in 1..m_TotalResources : events[k] = [what |-> "~Resource", index |-> k]
    /\ \A k \in 1..m_NumSets : events[m_TotalResources + k].what = "~DescriptorSet"
    /\ { events[m_TotalResources + k].index : k \in 1..m_NumSets } = 0..(m_NumSets - 1)
    /\ events[Len(events)] = [what |-> "Free", index |-> m_pMemory]

\* C17: teardown of a store that allocated its block (initialized once, its
\* slots constructed) destructs every slot in increasing flat order, then
\* every set header, then frees the block once through the allocator stored
\* by InitializeSets, and touches no other block; teardown of a store without
\* a block destructs nothing, releases nothing and calls Free zero times.
C17_TeardownOrder ==
    [][ last'.op = "Destructor" =>
            IF m_pMemory # 0
            THEN (InitializedOnce /\ \A i \in Slots : mem[i].ctor = 1) =>
                    /\ pc' = "destroyed"
                    /\ OrderlyTeardown(last'.events)
                    /\ last'.alloc = m_pAllocator
                    /\ blocks[m_pMemory].allocator = m_pAllocator
                    /\ blocks[m_pMemory].freed = 0
                    /\ blocks'[m_pMemory].freed = 1
                    /\ \A b \in 1..Len(blocks) : b # m_pMemory => blocks'[b] = blocks[b]
            ELSE /\ pc' = "destroyed"
                 /\ last'.events = <<>>
                 /\ blocks' = blocks
                 /\ refCnt' = refCnt ]_vars

\* a torn-down store of two sets and two bound slots, its block freed once
C17_Witness ==
    /\ TornDown /\ pc = "destroyed" /\ ~last.ub
    /\ m_NumSets = 2 /\ m_TotalResources = 2
    /\ \A i \in Slots : mem[i].ctor = 1 /\ mem[i].pObject # "nullptr"
    /\ blocks[m_pMemory].freed = 1

\* the sum of the set sizes as a number: the sums of the halves are small
\* enough to add exactly; kept as upper part and lower half
ExactSum(SetSizes) ==
    LET lo == Sum([t \in 1..Len(SetSizes) |-> SetSizes[t].lo])
        hi == Sum([t \in 1..Len(SetSizes) |-> SetSizes[t].hi])
    IN [hi |-> hi + (lo \div Half), lo |-> lo % Half]

\* C18: for every sequence of 32-bit set sizes, the total slot count that
\* InitializeSets stores equals the sum of the sizes (no wrap-around modulo
\* 2^32), and the slice cursor after the last set is at the end of the
\* allocated block: the assertion of line 69 holds.
C18_TotalIsExactSum ==
    sizing.called =>
        /\ sizing.m_TotalResources = ExactSum(sizing.SetSizes)
        /\ sizing.atEnd
        /\ sizing.status = "ok"

\* the records name slots in strictly increasing flat order
InSlotOrder(records) ==
    \A k \in 1..(Len(records) - 1) : records[k].slot < records[k + 1].slot

\* the pass went through all the slots, the last one visited being the last
\* of the store, and its requests and diagnostics are in flat slot order
VisitedAllInOrder ==
    /\ last.visited = m_TotalResources
    /\ InSlotOrder(last.requests) /\ SlotsOf(last.requests) \subseteq Slots
    /\ InSlotOrder(last.diags) /\ SlotsOf(last.diags) \subseteq Slots

\* C19 as claimed: every transition pass (that reads constructed, bound
\* slots) ends after visiting each slot of the store once in increasing flat
\* order, and its requests or diagnostics appear in that order.
C19_EveryPassVisitsAllSlotsInOrder ==
    (IsPass(last) /\ ~last.ub) => VisitedAllInOrder

\* C19 as amended: the same for every transition pass that does not end in
\* the fatal UnexpectedResourceKind condition, which stops the pass at the
\* slot of the unknown kind.
C19_CompletedPassVisitsAllSlotsInOrder ==
    (IsPass(last) /\ ~last.ub /\ last.status # "UnexpectedResourceKind") => VisitedAllInOrder

\* a pass over two slots that produced an output for each of them
C19_Witness ==
    /\ IsPass(last) /\ ~last.ub /\ last.status = "ok"
    /\ m_NumSets = 2 /\ m_TotalResources = 2 /\ last.visited = 2
    /\ Len(last.requests) + Len(last.diags) = 2

\* C20: a transition pass in either mode leaves the store as it was: the same
\* block and allocator, set count, total slot count, slot range of every set,
\* kind and bound object of every slot, and reference counts; an apply pass
\* changes resource states and writes no diagnostic, a verify pass writes
\* diagnostics and changes no resource state.
C20_PassLeavesStoreUnchanged ==
    [][ (IsPass(last') /\ ~last'.ub) =>
            /\ m_NumSets' = m_NumSets /\ m_TotalResources' = m_TotalResources
            /\ m_pMemory' = m_pMemory /\ m_pAllocator' = m_pAllocator
            /\ sets' = sets
            /\ mem' = mem
            /\ blocks' = blocks /\ refCnt' = refCnt
            /\ otherStore' = otherStore
            /\ last'.op = "Apply" => last'.diags = <<>>
            /\ last'.op = "Verify" => (last'.requests = <<>> /\ accessFlags' = accessFlags
                                                             /\ layout' = layout) ]_vars

\* an apply pass that changed the state of a bound buffer, over a store of
\* two sets whose slots hold their references as before
C20_Witness ==
    /\ CleanPass("Apply") /\ WellFormedStore
    /\ m_NumSets = 2 /\ m_TotalResources = 2
    /\ mem[1].pObject = "B1" /\ mem[2].pObject = "BV1"
    /\ refCnt["B1"] = 2 /\ refCnt["BV1"] = 2
    /\ Len(last.requests) = 2

\* the slots that the pass or the teardown that has just run has touched
Touched ==
    IF IsPass(last) THEN 1..last.visited
    ELSE { last.events[k].index : k \in { n \in 1..Len(last.events) :
                                            last.events[n].what = "~Resource" } }

\* every touched slot is a slot of the block that one constructor call made
TouchedOnlyConstructed ==
    \A i \in Touched : i \in 1..Len(mem) /\ mem[i].ctor = 1

\* InitializeResources has been called for the whole range of every set
EverySetConstructed ==
    /\ m_NumSets <= Len(sets)
    /\ \A t \in 1..m_NumSets : \A i \in SlotRange(t) : i \in 1..Len(mem) /\ mem[i].ctor = 1

\* C21 as claimed: in every reachable state, a slot that a transition pass
\* reads or that teardown destructs was constructed exactly once by
\* InitializeResources; neither touches a slot that was never constructed.
C21_OnlyConstructedSlotsTouched ==
    (IsPass(last) \/ last.op = "Destructor") => TouchedOnlyConstructed

\* C21 as amended: the same once InitializeResources has been called (once)
\* for the whole range of every set: the slots a pass reads and teardown
\* destructs are then slots of the sets, each constructed once.
C21_OnlyConstructedSlotsTouchedAfterFullSetUp ==
    ((IsPass(last) \/ last.op = "Destructor") /\ EverySetConstructed) => TouchedOnlyConstructed

\* the teardown of a store of two sets, each constructed by its own call
C21_Witness ==
    /\ last.op = "Destructor" /\ EverySetConstructed
    /\ m_NumSets = 2 /\ sets[1].NumResources = 1 /\ sets[2].NumResources = 1
    /\ Touched = {1, 2}
    /\ mem[1].Type # mem[2].Type

====
